---- MODULE Spec2Model ----
(***************************************************************************)
(* Model of the AVA voicemail webhook server (src/server.js).              *)
(*                                                                         *)
(* A behaviour follows one HTTP request through its route handler, and the *)
(* requests the telephony provider then makes to the endpoints the         *)
(* responses designate.  An action is the code a handler runs between two  *)
(* awaits (JavaScript runs it to completion without interleaving); the     *)
(* outcome of each awaited outbound call is chosen by the environment.     *)
(***************************************************************************)
EXTENDS Integers, Sequences, FiniteSets, TLC

VARIABLES
  handler,            \* route of the request being served, "none" before it arrives
  pc,                 \* position of the handler: the await it is suspended at
  recordingUrl,       \* req.body.RecordingUrl
  speechResult,       \* req.body.SpeechResult
  i,                  \* loop index of the fetch retry loop
  audioResponse,      \* status of the last fetch response, NoResponse while unassigned
  transcriptionText,  \* outer-scope variable of /recording-complete
  aiAnalysis,         \* outer-scope variable of /recording-complete
  error,              \* the error the enclosing catch received
  trace,              \* outbound calls, their results, timers and writes, in order
  mails,              \* sendMail calls of this request, each with its callback state
  responses,          \* response documents written to res
  escaped,            \* an exception left the async handler (rejected promise)
  call                \* routes requested so far in this phone call, the current one last

vars == <<handler, pc, recordingUrl, speechResult, i, audioResponse,
          transcriptionText, aiAnalysis, error, trace, mails, responses, escaped, call>>

-----------------------------------------------------------------------------
(* Bounds of the model *)

MaxStrLen == 2
MaxAnalysisLen == 3

(* Program constants *)

maxRetries == 3
retryDelayMs == 2000

-----------------------------------------------------------------------------
(* Request body values.  express.json() and express.urlencoded({extended:  *)
(* true}) deliver a field as a string, leave it undefined, or deliver a    *)
(* non-string (array/object, e.g. from "SpeechResult[]=a").                *)

Chars == {" ", "a"}
Strings == UNION {[1..n -> Chars] : n \in 0..MaxStrLen}

Undefined == [kind |-> "undefined", str |-> <<>>]
Obj == [kind |-> "object", str |-> <<>>]
Str(s) == [kind |-> "string", str |-> s]
BodyValues == {Undefined, Obj} \cup {Str(s) : s \in Strings}

\* JavaScript truthiness of a body value: undefined and "" are falsy.
Truthy(v) == v.kind = "object" \/ (v.kind = "string" /\ v.str # <<>>)

\* String.prototype.trim
RECURSIVE TrimStart(_)
TrimStart(s) == IF s # <<>> /\ Head(s) = " " THEN TrimStart(Tail(s)) ELSE s
RECURSIVE TrimEnd(_)
TrimEnd(s) ==
  IF s # <<>> /\ s[Len(s)] = " " THEN TrimEnd(SubSeq(s, 1, Len(s) - 1)) ELSE s
Trim(s) == TrimEnd(TrimStart(s))

\* Faulty variant: the blank check without trim().
InvalidRecordingUrlNoTrim(v) == ~Truthy(v)
\* !recordingUrl || (typeof recordingUrl === 'string' && recordingUrl.trim() === '')
InvalidRecordingUrl(v) ==
  ~Truthy(v) \/ (v.kind = "string" /\ Trim(v.str) = <<>>)

-----------------------------------------------------------------------------
(* Outcomes of the outbound calls *)

NoResponse == 0
NetworkError == -1
Statuses == {200, 404, 500}
FetchOutcomes == Statuses \cup {NetworkError}
Ok(status) == status \in 200..299

TranscriptTexts == {s \in Strings : Len(s) <= 1}
NoTranscription == <<"No transcription available.">>

\* Text of the model, as tokens: the label "Summary: ", a newline, another character.
Label == "Summary: "
Newline == "\n"
AnalysisToks == {Label, Newline, "a"}
AnalysisTexts == UNION {[1..n -> AnalysisToks] : n \in 0..MaxAnalysisLen}
NoAnalysis == [null |-> FALSE, str |-> <<"No AI summary available.">>]
Content(s) == [null |-> FALSE, str |-> s]
NullContent == [null |-> TRUE, str |-> <<>>]
Contents == {NullContent} \cup {Content(s) : s \in AnalysisTexts}

\* Errors: kind, the response status (status errors) and the attempt that threw.
Err(kind, status, attempt) == [kind |-> kind, status |-> status, attempt |-> attempt]
NoError == Err("none", 0, 0)

Ev(name, n) == [ev |-> name, n |-> n]

-----------------------------------------------------------------------------
(* Response documents: a sequence of verbs *)

Say(text) ==
  [verb |-> "Say", text |-> text, action |-> "", method |-> "", maxLength |-> 0, timeout |-> 0]
Hangup ==
  [verb |-> "Hangup", text |-> <<>>, action |-> "", method |-> "", maxLength |-> 0, timeout |-> 0]
Record(action) ==
  [verb |-> "Record", text |-> <<>>, action |-> action, method |-> "POST",
   maxLength |-> 60, timeout |-> 5]
Gather(action, text) ==
  [verb |-> "Gather", text |-> text, action |-> action, method |-> "POST",
   maxLength |-> 0, timeout |-> 5]

Response(status, doc) == [status |-> status, doc |-> doc]

\* Faulty variant: the hangup that was removed from /voice is still there.
GreetingTwimlWithHangup ==
  <<Say(<<"Hello. This is a final test.">>), Record("/recording-complete"), Hangup>>
GreetingTwiml == <<Say(<<"Hello. This is a final test.">>), Record("/recording-complete")>>

NoRecordingTwiml ==
  <<Say(<<"I apologize, but I didn't receive a clear recording. Please try again later. Goodbye.">>),
    Hangup>>

\* Faulty variant: the error document without the hangup.
ErrorTwimlNoHangup ==
  <<Say(<<"I apologize, an error occurred while processing your message. Please try again later.">>)>>
ErrorTwiml ==
  <<Say(<<"I apologize, an error occurred while processing your message. Please try again later.">>),
    Hangup>>

-----------------------------------------------------------------------------
(* Emails *)

Mail(kind, text, analysis, url, err, speech) ==
  [kind |-> kind, transcription |-> text, analysis |-> analysis, url |-> url,
   error |-> err, speech |-> speech, state |-> "pending"]

NotificationMail(text, analysis, url) ==
  Mail("notification", text, analysis, url, NoError, <<>>)
ErrorMail(text, url, err) == Mail("error", text, NoAnalysis, url, err, <<>>)
FollowupMail(speech) == Mail("followup", <<>>, NoAnalysis, Undefined, NoError, speech)

-----------------------------------------------------------------------------
(* Summary extraction *)

\* String.prototype.split on a separator: the pieces between its occurrences.
RECURSIVE Split(_, _)
Split(s, sep) ==
  IF s = <<>> THEN <<(<<>>)>>
  ELSE LET rest == Split(Tail(s), sep) IN
       IF Head(s) = sep THEN <<(<<>>)>> \o rest
       ELSE <<(<<Head(s)>> \o Head(rest))>> \o Tail(rest)

Fallback == <<"I have received your message.">>

\* Faulty variant: the whole remainder after the label, not cut at the newline.
SummarySpeechNoLineCut(s) ==
  LET pieces == Split(s, Label) IN
  IF Len(pieces) < 2 \/ pieces[2] = <<>> THEN Fallback ELSE pieces[2]
\* Faulty variant: no fallback when the summary line is empty.
SummarySpeechNoEmptyFallback(s) ==
  LET pieces == Split(s, Label) IN
  IF Len(pieces) < 2 THEN Fallback ELSE Split(pieces[2], Newline)[1]
\* aiAnalysis.split('Summary: ')[1]?.split('\n')[0] || "I have received your message."
SummarySpeech(s) ==
  LET pieces == Split(s, Label) IN
  IF Len(pieces) < 2 THEN Fallback
  ELSE LET line == Split(pieces[2], Newline)[1] IN
       IF line = <<>> THEN Fallback ELSE line

SummaryTwiml(s) ==
  <<Say(<<"Thank you for your message. Here is a summary: ">> \o SummarySpeech(s) \o <<".">>),
    Gather("/handle-followup", <<"Can I help with anything else regarding your message?">>),
    Say(<<"Goodbye.">>),
    Hangup>>

FollowupTwiml(speech) ==
  <<Say(<<"You said: \"">> \o speech
        \o <<"\". I will pass this additional information along to Alex. Thank you.">>),
    Hangup>>

\* Faulty variant: the else branch asks again, gathering to the same endpoint.
NotCaughtTwimlAsksAgain ==
  <<Say(<<"I didn't catch that. If you have more questions, please call back.">>),
    Gather("/handle-followup", <<"Can I help with anything else regarding your message?">>),
    Hangup>>
NotCaughtTwiml ==
  <<Say(<<"I didn't catch that. If you have more questions, please call back.">>), Hangup>>

-----------------------------------------------------------------------------
(* Initial state: the server is listening, no request has arrived *)

Init ==
  /\ handler = "none"
  /\ pc = "idle"
  /\ recordingUrl = Undefined
  /\ speechResult = Undefined
  /\ i = 0
  /\ audioResponse = NoResponse
  /\ transcriptionText = NoTranscription
  /\ aiAnalysis = NoAnalysis
  /\ error = NoError
  /\ trace = <<>>
  /\ mails = <<>>
  /\ responses = <<>>
  /\ escaped = FALSE
  /\ call = <<>>

-----------------------------------------------------------------------------
(* Delivery of a request.  The first request of a behaviour may be to any  *)
(* route; a later one is the provider's, to the endpoint a response named. *)

Requested(route) ==
  pc = "idle" /\ (IF call = <<>> THEN TRUE ELSE call[Len(call)] = route)
Delivered(route) == IF call = <<>> THEN <<route>> ELSE call

-----------------------------------------------------------------------------
(* POST /voice *)

Voice ==
  /\ Requested("/voice")
  /\ call' = Delivered("/voice")
  /\ handler' = "/voice"
  /\ responses' = Append(responses, Response(200, GreetingTwiml))
  /\ trace' = Append(trace, Ev("respond", 200))
  /\ pc' = "done"
  /\ UNCHANGED <<recordingUrl, speechResult, i, audioResponse, transcriptionText,
                 aiAnalysis, error, mails, escaped>>

-----------------------------------------------------------------------------
(* POST /recording-complete *)

\* Faulty variant: the error path answers but sends no error email.
CatchNoMail(err, tr, ms, text) ==
  /\ error' = err
  /\ mails' = ms
  /\ responses' = Append(responses, Response(500, ErrorTwiml))
  /\ trace' = tr \o <<Ev("respond", 500)>>
  /\ pc' = "done"
\* Faulty variant: the error path sends the email but never writes the response.
CatchNoResponse(err, tr, ms, text) ==
  /\ error' = err
  /\ mails' = Append(ms, ErrorMail(text, recordingUrl, err))
  /\ responses' = responses
  /\ trace' = tr \o <<Ev("sendMail", 0)>>
  /\ pc' = "done"
\* Faulty variant: the error email always carries the placeholder.
CatchPlaceholder(err, tr, ms, text) ==
  /\ error' = err
  /\ mails' = Append(ms, ErrorMail(NoTranscription, recordingUrl, err))
  /\ responses' = Append(responses, Response(500, ErrorTwiml))
  /\ trace' = tr \o <<Ev("sendMail", 0), Ev("respond", 500)>>
  /\ pc' = "done"
\* The enclosing catch: error email (not awaited), apology, hangup, status 500.
\* tr, ms and text are the trace, the mails and transcriptionText at the throw.
Catch(err, tr, ms, text) ==
  /\ error' = err
  /\ mails' = Append(ms, ErrorMail(text, recordingUrl, err))
  /\ responses' = Append(responses, Response(500, ErrorTwiml))
  /\ trace' = tr \o <<Ev("sendMail", 0), Ev("respond", 500)>>
  /\ pc' = "done"

\* Validation, then the first iteration of the retry loop up to its await.
RecordingComplete ==
  /\ Requested("/recording-complete")
  /\ call' = Delivered("/recording-complete")
  /\ handler' = "/recording-complete"
  /\ \E v \in BodyValues :
       /\ recordingUrl' = v
       /\ IF InvalidRecordingUrl(v)
          THEN /\ responses' = Append(responses, Response(200, NoRecordingTwiml))
               /\ trace' = Append(trace, Ev("respond", 200))
               /\ pc' = "done"
          ELSE /\ responses' = responses
               /\ trace' = Append(trace, Ev("fetch", 1))
               /\ pc' = "fetch"
  /\ i' = 0
  /\ UNCHANGED <<speechResult, audioResponse, transcriptionText, aiAnalysis,
                 error, mails, escaped>>

\* Faulty variant: a 404 is retried on every attempt, the last one included.
RetryNotFoundAlways(status, idx) == status = 404
\* audioResponse.status === 404 && i < maxRetries - 1
RetryNotFound(status, idx) == status = 404 /\ idx < maxRetries - 1

\* Faulty variant: the catch of the loop never retries.
RetryAfterErrorNever(idx) == FALSE
\* Faulty variant: the catch of the loop retries on the last attempt too.
RetryAfterErrorAlways(idx) == idx <= maxRetries - 1
\* the catch inside the loop: i < maxRetries - 1
RetryAfterError(idx) == idx < maxRetries - 1

\* Start the retry timer (await new Promise(resolve => setTimeout(...))).
StartDelay(resp, tr) ==
  /\ audioResponse' = resp
  /\ trace' = Append(tr, Ev("delay", retryDelayMs))
  /\ pc' = "delay"
  /\ UNCHANGED <<i, transcriptionText, aiAnalysis, error, mails, responses>>

\* The catch inside the loop, entered with err; resp is audioResponse by then.
InnerCatch(err, resp, tr) ==
  IF RetryAfterError(i)
  THEN StartDelay(resp, tr)
  ELSE /\ audioResponse' = resp
       /\ Catch(err, tr, mails, transcriptionText)
       /\ UNCHANGED <<i, transcriptionText, aiAnalysis>>

\* After the loop: the check of audioResponse, then await audioResponse.buffer().
AfterLoop(resp, tr) ==
  /\ audioResponse' = resp
  /\ UNCHANGED <<transcriptionText, aiAnalysis>>
  /\ IF resp = NoResponse \/ ~Ok(resp)
     THEN Catch(Err("afterRetries", 0, 0), tr, mails, transcriptionText)
     ELSE /\ trace' = Append(tr, Ev("buffer", 0))
          /\ pc' = "buffer"
          /\ UNCHANGED <<error, mails, responses>>

\* await fetch(...) settles: a response with a status, or a rejection.
FetchSettled ==
  /\ pc = "fetch"
  /\ \E o \in FetchOutcomes :
       LET tr == Append(trace, Ev("fetchResult", o)) IN
       IF o = NetworkError
       THEN InnerCatch(Err("transport", 0, i + 1), audioResponse, tr)
       ELSE IF Ok(o)
            THEN AfterLoop(o, tr) /\ i' = i
            ELSE IF RetryNotFound(o, i)
                 THEN StartDelay(o, tr)
                 ELSE InnerCatch(Err("status", o, i + 1), o, tr)
  /\ UNCHANGED <<handler, recordingUrl, speechResult, escaped, call>>

\* The retry timer fires: i++, the loop test, the next fetch.
DelayElapsed ==
  /\ pc = "delay"
  /\ i' = i + 1
  /\ IF i + 1 < maxRetries
     THEN /\ trace' = Append(trace, Ev("fetch", i + 2))
          /\ pc' = "fetch"
          /\ UNCHANGED <<audioResponse, transcriptionText, aiAnalysis, error,
                         mails, responses>>
     ELSE AfterLoop(audioResponse, trace)
  /\ UNCHANGED <<handler, recordingUrl, speechResult, escaped, call>>

\* await audioResponse.buffer() settles; then the File is built (path.basename
\* throws a TypeError when recordingUrl is not a string) and Whisper is called.
BufferSettled ==
  /\ pc = "buffer"
  /\ \E ok \in BOOLEAN :
       IF ~ok
       THEN Catch(Err("buffer", 0, 0), Append(trace, Ev("bufferResult", 0)), mails,
                  transcriptionText)
       ELSE IF recordingUrl.kind # "string"
            THEN Catch(Err("pathTypeError", 0, 0), Append(trace, Ev("bufferResult", 1)),
                       mails, transcriptionText)
            ELSE /\ trace' = trace \o <<Ev("bufferResult", 1), Ev("transcribe", 0)>>
                 /\ pc' = "transcribe"
                 /\ UNCHANGED <<error, mails, responses>>
  /\ UNCHANGED <<handler, recordingUrl, speechResult, i, audioResponse,
                 transcriptionText, aiAnalysis, escaped, call>>

\* Faulty variant: a failed transcription is swallowed and the chat call starts
\* with the placeholder text.
TranscriptionSettledSwallow ==
  /\ pc = "transcribe"
  /\ \/ /\ trace' = trace \o <<Ev("transcribeResult", 0), Ev("chat", 0)>>
        /\ UNCHANGED transcriptionText
     \/ \E text \in TranscriptTexts :
          /\ transcriptionText' = text
          /\ trace' = trace \o <<Ev("transcribeResult", 1), Ev("chat", 0)>>
  /\ pc' = "chat"
  /\ UNCHANGED <<handler, recordingUrl, speechResult, i, audioResponse, aiAnalysis,
                 escaped, call, error, mails, responses>>
\* await openai.audio.transcriptions.create(...) settles; then the chat call starts.
TranscriptionSettled ==
  /\ pc = "transcribe"
  /\ \/ /\ Catch(Err("transcription", 0, 0), Append(trace, Ev("transcribeResult", 0)),
                 mails, transcriptionText)
        /\ UNCHANGED transcriptionText
     \/ \E text \in TranscriptTexts :
          /\ transcriptionText' = text
          /\ trace' = trace \o <<Ev("transcribeResult", 1), Ev("chat", 0)>>
          /\ pc' = "chat"
          /\ UNCHANGED <<error, mails, responses>>
  /\ UNCHANGED <<handler, recordingUrl, speechResult, i, audioResponse, aiAnalysis,
                 escaped, call>>

\* Faulty variant: the response is written from the sendMail callback, that is
\* only once the send has completed.
ChatSettledAwaitMail ==
  /\ pc = "chat"
  /\ \E c \in Contents \ {NullContent} :
       /\ aiAnalysis' = c
       /\ mails' = Append(mails, NotificationMail(transcriptionText, c, recordingUrl))
       /\ trace' = trace \o <<Ev("chatResult", 1), Ev("sendMail", 0)>>
       /\ pc' = "mail"
       /\ UNCHANGED <<error, responses>>
  /\ UNCHANGED <<handler, recordingUrl, speechResult, i, audioResponse,
                 transcriptionText, escaped, call>>
\* await openai.chat.completions.create(...) settles; then the notification email
\* is handed to sendMail (not awaited), the summary is extracted (a TypeError when
\* the message content is null) and the response is written.
ChatSettled ==
  /\ pc = "chat"
  /\ \/ /\ Catch(Err("model", 0, 0), Append(trace, Ev("chatResult", 0)), mails,
                 transcriptionText)
        /\ UNCHANGED aiAnalysis
     \/ \E c \in Contents :
          LET ms == Append(mails, NotificationMail(transcriptionText, c, recordingUrl))
              tr == trace \o <<Ev("chatResult", 1), Ev("sendMail", 0)>>
          IN /\ aiAnalysis' = c
             /\ IF c.null
                THEN Catch(Err("splitTypeError", 0, 0), tr, ms, transcriptionText)
                ELSE /\ mails' = ms
                     /\ responses' = Append(responses, Response(200, SummaryTwiml(c.str)))
                     /\ trace' = Append(tr, Ev("respond", 200))
                     /\ pc' = "done"
                     /\ UNCHANGED error
  /\ UNCHANGED <<handler, recordingUrl, speechResult, i, audioResponse,
                 transcriptionText, escaped, call>>

-----------------------------------------------------------------------------
(* POST /handle-followup *)

\* speechResult && speechResult.trim() !== '' : a truthy non-string has no trim
\* method, the TypeError is thrown outside any try and rejects the handler's promise.
HandleFollowup ==
  /\ Requested("/handle-followup")
  /\ call' = Delivered("/handle-followup")
  /\ handler' = "/handle-followup"
  /\ \E v \in BodyValues :
       /\ speechResult' = v
       /\ IF Truthy(v) /\ v.kind # "string"
          THEN /\ escaped' = TRUE
               /\ UNCHANGED <<mails, responses, trace>>
          ELSE /\ escaped' = escaped
               /\ IF Truthy(v) /\ Trim(v.str) # <<>>
                  THEN /\ mails' = Append(mails, FollowupMail(v.str))
                       /\ responses' = Append(responses, Response(200, FollowupTwiml(v.str)))
                       /\ trace' = trace \o <<Ev("sendMail", 0), Ev("respond", 200)>>
                  ELSE /\ mails' = mails
                       /\ responses' = Append(responses, Response(200, NotCaughtTwiml))
                       /\ trace' = Append(trace, Ev("respond", 200))
  /\ pc' = "done"
  /\ UNCHANGED <<recordingUrl, i, audioResponse, transcriptionText, aiAnalysis, error>>

-----------------------------------------------------------------------------
(* POST /transcription *)

Transcription ==
  /\ Requested("/transcription")
  /\ call' = Delivered("/transcription")
  /\ handler' = "/transcription"
  /\ responses' = Append(responses, Response(200, <<>>))
  /\ trace' = Append(trace, Ev("respond", 200))
  /\ pc' = "done"
  /\ UNCHANGED <<recordingUrl, speechResult, i, audioResponse, transcriptionText,
                 aiAnalysis, error, mails, escaped>>

-----------------------------------------------------------------------------
(* nodemailer invokes a sendMail callback: the send succeeded or failed.   *)
(* The callbacks only log.                                                 *)

MailCallback ==
  /\ \E k \in DOMAIN mails, result \in {"sent", "failed"} :
       /\ mails[k].state = "pending"
       /\ mails' = [mails EXCEPT ![k].state = result]
  /\ UNCHANGED <<handler, pc, recordingUrl, speechResult, i, audioResponse,
                 transcriptionText, aiAnalysis, error, trace, responses, escaped, call>>

-----------------------------------------------------------------------------
(* The provider follows a response: it requests the endpoint an action     *)
(* attribute of the document names (the recording has ended, the caller    *)
(* has spoken).  The new request starts with fresh handler state.          *)

Designated(doc) == {doc[k].action : k \in DOMAIN doc} \ {""}

ProviderFollows ==
  /\ pc = "done"
  /\ responses # <<>>
  /\ \E route \in Designated(responses[Len(responses)].doc) :
       call' = Append(call, route)
  /\ pc' = "idle"
  /\ handler' = "none"
  /\ recordingUrl' = Undefined
  /\ speechResult' = Undefined
  /\ i' = 0
  /\ audioResponse' = NoResponse
  /\ transcriptionText' = NoTranscription
  /\ aiAnalysis' = NoAnalysis
  /\ error' = NoError
  /\ trace' = <<>>
  /\ mails' = <<>>
  /\ responses' = <<>>
  /\ escaped' = FALSE

-----------------------------------------------------------------------------

Next ==
  \/ Voice
  \/ RecordingComplete
  \/ FetchSettled
  \/ DelayElapsed
  \/ BufferSettled
  \/ TranscriptionSettled
  \/ ChatSettled
  \/ HandleFollowup
  \/ Transcription
  \/ MailCallback
  \/ ProviderFollows

Spec == Init /\ [][Next]_vars

\* Every outbound call of /recording-complete eventually settles and the retry
\* timer eventually fires.
FairSpec ==
  /\ Spec
  /\ WF_vars(FetchSettled)
  /\ WF_vars(DelayElapsed)
  /\ WF_vars(BufferSettled)
  /\ WF_vars(TranscriptionSettled)
  /\ WF_vars(ChatSettled)

-----------------------------------------------------------------------------
(* Reading the trace *)

Positions(name) == {k \in DOMAIN trace : trace[k].ev = name}
Count(name) == Cardinality(Positions(name))
Attempts == Count("fetch")
Delays == Count("delay")
\* the attempt whose call is the last one at or before position k
AttemptAt(k) == Cardinality({j \in 1..k : trace[j].ev = "fetch"})
\* the fetch outcomes so far, in order
Results ==
  LET rs == SelectSeq(trace, LAMBDA e : e.ev = "fetchResult")
  IN [k \in DOMAIN rs |-> rs[k].n]
NotFounds(k) == [j \in 1..k |-> 404]
InRecording == handler = "/recording-complete"
InFollowup == handler = "/handle-followup"
\* a recording reference that is missing, empty or whitespace-only
BlankValue(v) ==
  \/ v.kind = "undefined"
  \/ v.kind = "string" /\ \A k \in DOMAIN v.str : v.str[k] = " "

-----------------------------------------------------------------------------
(* Fetch retry *)

\* C1: a non-success response other than 404 (500) raises at once, whatever the
\* attempt: the status error of that attempt reaches the enclosing catch and no
\* delay and no further attempt follows it; with the responses [500] exactly one
\* attempt is made.
C1_OtherStatusRaisesAtOnce ==
  InRecording =>
    /\ \A k \in Positions("fetchResult") :
         trace[k].n \in Statuses /\ ~Ok(trace[k].n) /\ trace[k].n # 404 =>
           /\ error = Err("status", trace[k].n, AttemptAt(k))
           /\ \A j \in DOMAIN trace : j > k => trace[j].ev \notin {"delay", "fetch"}
    /\ (Results # <<>> /\ Results[1] = 500) => Attempts = 1 /\ Delays = 0

\* C2: k 404 responses (k in 0..2) and then a success response give exactly k+1
\* attempts and k delays and the loop is left with that success response; three
\* 404 responses give exactly 3 attempts and 2 delays and the fetch raises.
C2_NotFoundRetried ==
  InRecording =>
    /\ \A k \in 0..2 : \A st \in Statuses :
         Ok(st) /\ Results = Append(NotFounds(k), st) =>
           /\ Attempts = k + 1
           /\ Delays = k
           /\ audioResponse = st
           /\ Count("buffer") = 1
           /\ error.kind \notin {"status", "transport", "afterRetries"}
    /\ Results = NotFounds(3) =>
         /\ Attempts = 3
         /\ Delays = 2
         /\ error = Err("status", 404, 3)
         /\ pc = "done"
    /\ Len(Results) <= 3

C2_Witness ==
  /\ Results = <<404, 404, 200>>
  /\ Attempts = 3
  /\ Delays = 2
  /\ pc = "buffer"

\* C3: at most 3 attempts and at most 2 delays; every delay comes right after the
\* failed result of attempt 1 or 2 and right before the next attempt; nothing is
\* fetched or delayed after a success response.
C3_BoundedRetry ==
  InRecording =>
    /\ Attempts <= 3
    /\ Delays <= 2
    /\ \A k \in Positions("delay") :
         /\ k > 1
         /\ trace[k - 1].ev = "fetchResult"
         /\ ~Ok(trace[k - 1].n)
         /\ AttemptAt(k) < 3
         /\ trace[k].n = retryDelayMs
         /\ IF k = Len(trace) THEN pc = "delay"
            ELSE trace[k + 1] = Ev("fetch", AttemptAt(k) + 1)
    /\ \A k \in Positions("fetchResult") :
         Ok(trace[k].n) =>
           \A j \in DOMAIN trace : j > k => trace[j].ev \notin {"delay", "fetch"}

C3_Witness ==
  /\ Results = <<NetworkError, 500, 200>>
  /\ Attempts = 3
  /\ Delays = 2
  /\ pc = "done"

\* C4: a transport error on attempt 1 or 2 is followed by one delay of the fixed
\* length and then the next attempt; a transport error on attempt 3 reaches the
\* enclosing catch as that same error, with no delay.
C4_TransportError ==
  InRecording =>
    \A k \in Positions("fetchResult") :
      trace[k].n = NetworkError =>
        IF AttemptAt(k) < 3
        THEN /\ Len(trace) > k
             /\ trace[k + 1] = Ev("delay", retryDelayMs)
             /\ IF Len(trace) = k + 1 THEN pc = "delay"
                ELSE trace[k + 2] = Ev("fetch", AttemptAt(k) + 1)
        ELSE /\ error = Err("transport", 0, 3)
             /\ pc = "done"
             /\ Len(trace) = k + 2
             /\ trace[k + 1].ev = "sendMail"
             /\ trace[k + 2] = Ev("respond", 500)
             /\ mails[Len(mails)].error = Err("transport", 0, 3)

C4_Witness ==
  /\ Results = <<NetworkError, NetworkError, NetworkError>>
  /\ Delays = 2
  /\ error = Err("transport", 0, 3)

-----------------------------------------------------------------------------
(* /recording-complete: validation, error path, success path *)

ApologyThenHangup(doc) ==
  /\ Len(doc) = 2
  /\ doc[1].verb = "Say"
  /\ doc[1].text # <<>>
  /\ doc[2] = Hangup

\* C5: with a missing, empty or whitespace-only recording reference the handler
\* answers 200 with an apology followed by a hangup and makes no fetch attempt,
\* no transcription, no model call and no email send.
C5_BlankRecordingUrl ==
  (InRecording /\ BlankValue(recordingUrl)) =>
    /\ pc = "done"
    /\ Len(responses) = 1
    /\ responses[1].status = 200
    /\ ApologyThenHangup(responses[1].doc)
    /\ responses[1].doc[1].text =
         <<"I apologize, but I didn't receive a clear recording. Please try again later. Goodbye.">>
    /\ trace = <<Ev("respond", 200)>>
    /\ mails = <<>>

C5_Witness ==
  /\ InRecording
  /\ recordingUrl = Str(<<" ", " ">>)
  /\ Len(responses) = 1

\* the failures of the fetch (its retries used up, or its body unreadable), of the
\* transcription and of the model call
DownstreamFailures == {"transport", "status", "afterRetries", "buffer", "transcription", "model"}

\* C6: when the fetch, the transcription or the model call fails, exactly one
\* email is handed to sendMail, the error notification; no notification email is
\* sent; the response is an apology followed by a hangup under status 500.
C6_ErrorPath ==
  (InRecording /\ error.kind \in DownstreamFailures) =>
    /\ pc = "done"
    /\ Len(mails) = 1
    /\ mails[1].kind = "error"
    /\ mails[1].error = error
    /\ Count("sendMail") = 1
    /\ Len(responses) = 1
    /\ responses[1].status = 500
    /\ ApologyThenHangup(responses[1].doc)

C6_Witness ==
  /\ InRecording
  /\ error.kind = "model"
  /\ Results = <<404, 200>>
  /\ Len(mails) = 1

\* the text after the first label up to the next newline or label, or the end
Excerpt(s) ==
  LET first == CHOOSE p \in DOMAIN s :
                 s[p] = Label /\ \A q \in 1..(p - 1) : s[q] # Label
      stops == {q \in DOMAIN s : q > first /\ s[q] \in {Label, Newline}}
      stop == IF stops = {} THEN Len(s) + 1
              ELSE CHOOSE q \in stops : \A r \in stops : q <= r
  IN SubSeq(s, first + 1, stop - 1)
HasSummary(s) == (\E p \in DOMAIN s : s[p] = Label) /\ Excerpt(s) # <<>>

\* C7: when the fetch, the transcription and the model call succeeded (the model
\* returned text), exactly one email is sent, the notification with the
\* transcription, the analysis and the recording link, and the response is 200
\* with: the summary spoken (the excerpt of the "Summary: " field where the text
\* has one), a speech gather chained to /handle-followup, a goodbye, a hangup.
C7_SuccessPath ==
  (InRecording /\ pc = "done" /\ Ev("chatResult", 1) \in {trace[k] : k \in DOMAIN trace}
     /\ ~aiAnalysis.null) =>
    /\ error = NoError
    /\ mails # <<>>
    /\ [mails[1] EXCEPT !.state = "pending"]
         = NotificationMail(transcriptionText, aiAnalysis, recordingUrl)
    /\ Len(mails) = 1
    /\ Count("sendMail") = 1
    /\ Len(responses) = 1
    /\ responses[1].status = 200
    /\ LET doc == responses[1].doc IN
       /\ Len(doc) = 4
       /\ doc[1].verb = "Say"
       /\ HasSummary(aiAnalysis.str) =>
            doc[1].text = <<"Thank you for your message. Here is a summary: ">>
                            \o Excerpt(aiAnalysis.str) \o <<".">>
       /\ ~HasSummary(aiAnalysis.str) =>
            doc[1].text = <<"Thank you for your message. Here is a summary: ">>
                            \o Fallback \o <<".">>
       /\ doc[2].verb = "Gather"
       /\ doc[2].action = "/handle-followup"
       /\ doc[3] = Say(<<"Goodbye.">>)
       /\ doc[4] = Hangup

C7_Witness ==
  /\ InRecording
  /\ pc = "done"
  /\ aiAnalysis = Content(<<Label, "a", Newline>>)
  /\ Len(mails) = 1
  /\ responses[1].status = 200

Verbs == {"Say", "Record", "Gather", "Hangup"}
WellFormed(r) ==
  /\ r.status \in {200, 500}
  /\ r.doc # <<>>
  /\ \A k \in DOMAIN r.doc : r.doc[k].verb \in Verbs

\* C8: every /recording-complete invocation writes exactly one well-formed
\* response document, whatever the fetch attempts, the transcription, the model
\* call and the email sends did; no exception leaves the handler; after a
\* downstream fault the document ends in a hangup.
C8_OneResponse ==
  InRecording =>
    /\ ~escaped
    /\ Len(responses) = Count("respond")
    /\ IF pc = "done"
       THEN /\ Len(responses) = 1
            /\ WellFormed(responses[1])
            /\ error # NoError =>
                 responses[1].doc[Len(responses[1].doc)] = Hangup
       ELSE responses = <<>> /\ error = NoError

C8_Witness ==
  /\ InRecording
  /\ pc = "done"
  /\ error.kind = "transcription"
  /\ Len(responses) = 1
  /\ mails[1].state = "failed"

-----------------------------------------------------------------------------
(* /handle-followup *)

\* C9: for every request the follow-up handler answers 200 with a document that
\* ends in a hangup and chains to no endpoint; non-blank speech text gives
\* exactly one email with that text and the acknowledgment, absent or blank
\* speech text gives no email and the didn't-catch-that message.
C9_FollowupTerminal ==
  InFollowup =>
    /\ Len(responses) = 1
    /\ responses[1].status = 200
    /\ LET doc == responses[1].doc IN
       /\ doc[Len(doc)] = Hangup
       /\ \A k \in DOMAIN doc : doc[k].action = ""
       /\ IF BlankValue(speechResult)
          THEN mails = <<>> /\ doc = NotCaughtTwiml
          ELSE /\ Len(mails) = 1
               /\ mails[1].kind = "followup"
               /\ mails[1].speech = speechResult.str
               /\ doc = FollowupTwiml(speechResult.str)

\* C9 for the requests whose speech text is a string or absent.
C9_FollowupTerminalStrings ==
  (InFollowup /\ speechResult.kind # "object") => C9_FollowupTerminal

-----------------------------------------------------------------------------
(* Email sends *)

\* C10: the response is written in the step that hands the email to sendMail,
\* before the send can complete: a send completes only after the response, and
\* its completion, success or failure, changes neither the response nor the
\* handler.
C10_FireAndForget ==
  /\ [](mails # <<>> => Len(responses) = 1)
  /\ [][(responses' # responses) =>
          \A k \in DOMAIN mails' : mails'[k].state = "pending"]_vars
  /\ [][(\E k \in DOMAIN mails : k \in DOMAIN mails' /\ mails'[k].state # mails[k].state) =>
          (responses' = responses /\ pc' = pc /\ pc = "done")]_vars

C10_Witness ==
  /\ InRecording
  /\ Len(responses) = 1
  /\ responses[1].status = 200
  /\ Len(mails) = 1
  /\ mails[1].state = "pending"

-----------------------------------------------------------------------------
(* /transcription *)

InTranscription == handler = "/transcription"
\* the answer of the model names spam, in any letter case
ContainsSpam(s) == \E k \in DOMAIN s : s[k] \in {"spam", "Spam", "SPAM"}

\* C11: a /transcription request asks the model the spam question; when the
\* answer contains "spam" no notification email is sent, otherwise exactly one.
C11_SpamSuppressesMail ==
  (InTranscription /\ pc = "done") =>
    /\ Count("chat") = 1
    /\ IF ContainsSpam(aiAnalysis.str) THEN mails = <<>> ELSE Len(mails) = 1

-----------------------------------------------------------------------------
(* Order of the steps of /recording-complete *)

Before(a, b) == \A j \in Positions(a), k \in Positions(b) : j < k
Happened(e) == \E k \in DOMAIN trace : trace[k] = e

\* C12: the steps run in the order fetch, transcribe, summarize, notification
\* email, response: the transcription starts only after a fetch attempt returned
\* success, the model call only after the transcription succeeded, the
\* notification email only after the model call succeeded; the transcription and
\* the model call are each started at most once.
C12_StepOrder ==
  InRecording =>
    /\ Count("transcribe") <= 1
    /\ Count("chat") <= 1
    /\ Before("fetch", "transcribe")
    /\ Before("transcribe", "chat")
    /\ Before("chat", "sendMail")
    /\ Before("sendMail", "respond")
    /\ \A k \in Positions("transcribe") :
         \E j \in 1..(k - 1) : trace[j].ev = "fetchResult" /\ Ok(trace[j].n)
    /\ \A k \in Positions("chat") :
         k > 1 /\ trace[k - 1] = Ev("transcribeResult", 1)
    /\ \A m \in DOMAIN mails :
         mails[m].kind = "notification" =>
           /\ m = 1
           /\ \E k \in Positions("sendMail") :
                /\ k > 1
                /\ trace[k - 1] = Ev("chatResult", 1)
                /\ \E j \in Positions("chat") : j < k
    /\ \A k \in Positions("respond") : k = Len(trace)

C12_Witness ==
  /\ InRecording
  /\ pc = "done"
  /\ Results = <<404, 200>>
  /\ Count("transcribe") = 1
  /\ Count("chat") = 1
  /\ mails # <<>>
  /\ mails[1].kind = "notification"
  /\ trace[Len(trace)] = Ev("respond", 200)

-----------------------------------------------------------------------------
(* /voice *)

InVoice == handler = "/voice"

\* C13: /voice answers 200 with a greeting followed by a record directive that
\* has a maximum length and a silence timeout and POSTs to /recording-complete;
\* the document has no hangup; no fetch, transcription, model call or email.
C13_Intake ==
  InVoice =>
    /\ pc = "done"
    /\ Len(responses) = 1
    /\ responses[1].status = 200
    /\ LET doc == responses[1].doc IN
       /\ Len(doc) = 2
       /\ doc[1].verb = "Say"
       /\ doc[1].text # <<>>
       /\ doc[2].verb = "Record"
       /\ doc[2].maxLength > 0
       /\ doc[2].timeout > 0
       /\ doc[2].action = "/recording-complete"
       /\ doc[2].method = "POST"
       /\ \A k \in DOMAIN doc : doc[k].verb # "Hangup"
    /\ trace = <<Ev("respond", 200)>>
    /\ mails = <<>>

C13_Witness ==
  /\ InVoice
  /\ Len(responses) = 1
  /\ responses[1].doc[2].verb = "Record"

-----------------------------------------------------------------------------
(* The spoken summary *)

\* what the first Say of the success response speaks after its fixed opening
Spoken == LET text == responses[1].doc[1].text IN SubSeq(text, 2, Len(text) - 1)
Succeeded ==
  /\ InRecording
  /\ pc = "done"
  /\ Len(responses) = 1
  /\ responses[1].status = 200
  /\ ~BlankValue(recordingUrl)
HasLabel(s) == \E p \in DOMAIN s : s[p] = Label
\* the text after the first label up to the next newline, or the end
LineAfterLabel(s) ==
  LET first == CHOOSE p \in DOMAIN s :
                 s[p] = Label /\ \A q \in 1..(p - 1) : s[q] # Label
      stops == {q \in DOMAIN s : q > first /\ s[q] = Newline}
      stop == IF stops = {} THEN Len(s) + 1
              ELSE CHOOSE q \in stops : \A r \in stops : q <= r
  IN SubSeq(s, first + 1, stop - 1)

\* C14 as stated: the spoken summary is the text after the first label up to
\* the next newline; the generic acknowledgment when the label is absent or that
\* text is empty.
C14_UpToNewline ==
  Succeeded =>
    Spoken = IF HasLabel(aiAnalysis.str) /\ LineAfterLabel(aiAnalysis.str) # <<>>
             THEN LineAfterLabel(aiAnalysis.str)
             ELSE Fallback

\* C14 amended: the spoken summary is the text after the first label up to the
\* next newline or the next label, whichever comes first; the generic
\* acknowledgment when the label is absent or that text is empty.
C14_UpToNewlineOrLabel ==
  Succeeded =>
    Spoken = IF HasLabel(aiAnalysis.str) /\ Excerpt(aiAnalysis.str) # <<>>
             THEN Excerpt(aiAnalysis.str)
             ELSE Fallback

C14_Witness ==
  /\ Succeeded
  /\ aiAnalysis = Content(<<Label, "a", Label>>)
  /\ Spoken = <<"a">>

-----------------------------------------------------------------------------
(* Emails of one /recording-complete invocation *)

\* C15: at most one email is handed to sendMail in one invocation; the
\* notification and the error notification are never both sent.
C15_AtMostOneMail ==
  InRecording =>
    /\ Len(mails) <= 1
    /\ ~(\E j, k \in DOMAIN mails :
           mails[j].kind = "notification" /\ mails[k].kind = "error")

-----------------------------------------------------------------------------
(* Termination of /recording-complete *)

Awaiting == {"fetch", "delay", "buffer", "transcribe", "chat"}
\* the trace event that ends the await the handler is suspended at
Settles(at) ==
  CASE at = "fetch" -> "fetchResult"
    [] at = "buffer" -> "bufferResult"
    [] at = "transcribe" -> "transcribeResult"
    [] at = "chat" -> "chatResult"
    [] OTHER -> "none"

\* C16: when every outbound call settles and the timer fires, every
\* /recording-complete invocation writes its response; the handler has no
\* timeout of its own: while it awaits a call it writes a response only in the
\* step in which that call settles, so it never answers while the call hangs.
C16_EventuallyResponds ==
  /\ (InRecording ~> (InRecording /\ pc = "done" /\ Len(responses) = 1))
  /\ [][(InRecording /\ pc \in Awaiting /\ responses' # responses) =>
          /\ Len(trace') > Len(trace)
          /\ trace'[Len(trace) + 1].ev = Settles(pc)]_vars
  /\ [](InRecording /\ pc \in Awaiting => responses = <<>>)

C16_Witness ==
  /\ InRecording
  /\ pc = "done"
  /\ Attempts = 3
  /\ Happened(Ev("chatResult", 0))
  /\ Len(responses) = 1

-----------------------------------------------------------------------------
(* The webhook chain *)

Rank(route) ==
  CASE route = "/voice" -> 1
    [] route = "/recording-complete" -> 2
    [] route = "/handle-followup" -> 3
    [] OTHER -> 4

\* C17: the /voice response designates /recording-complete only; a
\* /recording-complete response designates /handle-followup, and only on the
\* success path; a /handle-followup response designates nothing; so the routes of
\* one call are requested in the order /voice, /recording-complete,
\* /handle-followup, each at most once; every /recording-complete and
\* /handle-followup response contains a hangup.
C17_AcyclicChain ==
  /\ responses # <<>> =>
       LET doc == responses[1].doc
           d == Designated(doc)
       IN /\ InVoice => d = {"/recording-complete"}
          /\ InRecording =>
               /\ d \subseteq {"/handle-followup"}
               /\ d # {} <=>
                    /\ responses[1].status = 200
                    /\ error = NoError
                    /\ ~BlankValue(recordingUrl)
                    /\ Happened(Ev("chatResult", 1))
          /\ InFollowup => d = {}
          /\ (InRecording \/ InFollowup) => \E k \in DOMAIN doc : doc[k] = Hangup
  /\ \A j, k \in DOMAIN call : j < k => Rank(call[j]) < Rank(call[k])
  /\ (call # <<>> /\ call[1] = "/voice") =>
       \E n \in 1..3 :
         call = SubSeq(<<"/voice", "/recording-complete", "/handle-followup">>, 1, n)

C17_Witness ==
  /\ call = <<"/voice", "/recording-complete", "/handle-followup">>
  /\ InFollowup
  /\ pc = "done"
  /\ Len(responses) = 1

-----------------------------------------------------------------------------
(* The error email *)

\* C18: the error email carries the placeholder when the failure came before the
\* transcription succeeded (fetch, transcription), and the transcription text
\* when it came after (model call or later).
C18_ErrorMailText ==
  InRecording =>
    \A m \in DOMAIN mails :
      mails[m].kind = "error" =>
        IF Happened(Ev("transcribeResult", 1))
        THEN /\ mails[m].transcription = transcriptionText
             /\ transcriptionText \in TranscriptTexts
        ELSE mails[m].transcription = NoTranscription

C18_Witness ==
  /\ InRecording
  /\ error.kind = "model"
  /\ transcriptionText = <<"a">>
  /\ mails[1].kind = "error"
  /\ mails[1].transcription = <<"a">>

-----------------------------------------------------------------------------
(* The check after the retry loop *)

\* C19: when the loop is left without a throw the last fetch response is a
\* success response; the third iteration ends in a break on success or in a
\* thrown error, never in a delay; the failure of the check after the loop is
\* never raised.
C19_PostLoopCheckNeverFails ==
  InRecording =>
    /\ error.kind # "afterRetries"
    /\ Count("buffer") > 0 =>
         /\ Ok(audioResponse)
         /\ Results # <<>>
         /\ Results[Len(Results)] = audioResponse
    /\ pc = "delay" => i < maxRetries - 1
    /\ Len(Results) = 3 =>
         \/ Ok(Results[3]) /\ Count("buffer") = 1
         \/ ~Ok(Results[3]) /\ error.kind \in {"status", "transport"} /\ error.attempt = 3

C19_Witness ==
  /\ InRecording
  /\ Results = <<500, NetworkError, 200>>
  /\ Count("buffer") = 1
  /\ error = NoError

====
